---- MODULE Spec2Model ----
(***************************************************************************)
(* Model of knowledge/retriever.py: class Retriever with the single method *)
(*     def retrieve(self, query: str) -> list[str]:                        *)
(*         return [f"Result for {query}"]                                  *)
(* called by any number of threads on shared or separate instances.        *)
(*                                                                         *)
(* A text is a sequence of one-character strings.  A list object lives in  *)
(* the heap under an address (its identity); a caller holds the address of *)
(* the list it was handed and may mutate that list or drop it.             *)
(* The method body is two steps per thread (the f-string is built, then    *)
(* the list display allocates the list and the method returns), so that    *)
(* the steps of concurrent calls interleave in every order.                *)
(***************************************************************************)
EXTENDS Integers, Sequences, FiniteSets, TLC

VARIABLES objects, heap, frame

vars == <<objects, heap, frame>>

(* ------------------------------ bounds -------------------------------- *)

\* longest query drawn from Alphabet
MaxQueryLen == 2
\* longest list a caller grows a returned list to
MaxListLen == 2

(* ------------------------------ domains ------------------------------- *)

Threads == {"t1", "t2"}
Instances == {"r1", "r2"}
NoInstance == "none"
Addrs == 1 .. Cardinality(Threads)
NoAddr == 0

\* characters of the sampled queries: both also occur in the template
Alphabet == {"t", " "}

RECURSIVE TextsOfLen(_)
TextsOfLen(n) ==
    IF n = 0 THEN {<<>>}
    ELSE {Append(s, c) : s \in TextsOfLen(n - 1), c \in Alphabet}

\* the query of tests/test_retriever.py
Test == <<"t", "e", "s", "t">>

Queries == UNION {TextsOfLen(n) : n \in 0 .. MaxQueryLen} \cup {Test}

\* a text a caller writes into a list it holds
MutText == <<"x">>

(* ------------------------------ retrieve ------------------------------ *)

\* the literal part of the f-string "Result for {query}"
Prefix == <<"R", "e", "s", "u", "l", "t", " ", "f", "o", "r", " ">>

\* mutant: the trailing blank of the template is lost
fstring_noblank(query) == SubSeq(Prefix, 1, Len(Prefix) - 1) \o query

\* mutant: the f prefix is lost, the braces and the name stay literal
fstring_literal(query) == Prefix \o <<"{", "q", "u", "e", "r", "y", "}">>

\* mutant: the query is stripped of surrounding blanks before it is formatted
RECURSIVE lstrip(_)
lstrip(s) == IF s # <<>> /\ Head(s) = " " THEN lstrip(Tail(s)) ELSE s
RECURSIVE rstrip(_)
rstrip(s) ==
    IF s # <<>> /\ s[Len(s)] = " " THEN rstrip(SubSeq(s, 1, Len(s) - 1)) ELSE s
fstring_strip(query) == Prefix \o lstrip(rstrip(query))

\* f"Result for {query}": format(query, "") of a str is the str itself
fstring(query) == Prefix \o query

\* the instance has no __init__ and no attribute: its __dict__ is empty
EmptyDict == [a \in {} |-> <<>>]

IdleFrame ==
    [pc |-> "idle", self |-> NoInstance, query |-> <<>>, tmp |-> <<>>,
     ret |-> NoAddr, result |-> <<>>]

\* objects: the attributes of each Retriever instance; heap: the live list
\* objects by address; frame: per thread, the position of its call, the
\* locals self and query, the value of the f-string, and the address and
\* the value of the list as it was returned
TypeOK ==
    /\ objects = [r \in Instances |-> EmptyDict]
    /\ DOMAIN heap \subseteq Addrs
    /\ \A t \in Threads :
           /\ frame[t].pc \in {"idle", "body", "built", "returned"}
           /\ frame[t].self \in Instances \cup {NoInstance}
           /\ frame[t].query \in Queries
           /\ frame[t].ret \in Addrs \cup {NoAddr}
           /\ frame[t].pc = "returned" => frame[t].ret \in DOMAIN heap

Init ==
    /\ objects = [r \in Instances |-> EmptyDict]
    /\ heap = [a \in {} |-> <<>>]
    /\ frame = [t \in Threads |-> IdleFrame]

\* r.retrieve(q): the arguments are bound to the locals self and query
Call(t, r, q) ==
    /\ frame[t].pc = "idle"
    /\ frame' = [frame EXCEPT ![t] = [IdleFrame EXCEPT !.pc = "body",
                                                      !.self = r,
                                                      !.query = q]]
    /\ UNCHANGED <<objects, heap>>

\* mutant: an empty query is rejected with an error
BuildString_raising(t) ==
    /\ frame[t].pc = "body"
    /\ frame' = [frame EXCEPT ![t].pc = IF frame[t].query = <<>> THEN "raised"
                                                                ELSE "built",
                              ![t].tmp = fstring(frame[t].query)]
    /\ UNCHANGED <<objects, heap>>

\* mutant: the last query is kept on the instance and answered again
BuildString_stateful(t) ==
    /\ frame[t].pc = "body"
    /\ LET o == objects[frame[t].self]
       IN /\ frame' = [frame EXCEPT ![t].pc = "built",
                                    ![t].tmp = IF "last" \in DOMAIN o
                                               THEN fstring(o["last"])
                                               ELSE fstring(frame[t].query)]
          /\ objects' = [objects EXCEPT ![frame[t].self] =
                             [a \in {"last"} |-> frame[t].query]]
    /\ UNCHANGED heap

\* mutant: the query is read from a slot the calls in progress share, so a
\* call formats the query of another call that has bound its arguments
BuildString_shared(t) ==
    /\ frame[t].pc = "body"
    /\ LET others == {u \in Threads \ {t} : frame[u].pc \in {"body", "built"}}
           q == IF others = {} THEN frame[t].query
                ELSE frame[CHOOSE u \in others : TRUE].query
       IN frame' = [frame EXCEPT ![t].pc = "built", ![t].tmp = fstring(q)]
    /\ UNCHANGED <<objects, heap>>

\* the f-string is evaluated from the local query
BuildString(t) ==
    /\ frame[t].pc = "body"
    /\ frame' = [frame EXCEPT ![t].pc = "built",
                              ![t].tmp = fstring(frame[t].query)]
    /\ UNCHANGED <<objects, heap>>

\* the address of a list display: an object distinct from every live one
NewAddr(h) == CHOOSE a \in Addrs \ DOMAIN h : \A b \in Addrs \ DOMAIN h : a <= b

\* mutant: an empty query yields an empty list
BuildList_emptyquery(t) ==
    /\ frame[t].pc = "built"
    /\ LET a == NewAddr(heap)
           l == IF frame[t].query = <<>> THEN <<>> ELSE <<frame[t].tmp>>
       IN /\ heap' = [b \in DOMAIN heap \cup {a} |-> IF b = a THEN l ELSE heap[b]]
          /\ frame' = [frame EXCEPT ![t] = [IdleFrame EXCEPT !.pc = "returned",
                                                            !.self = frame[t].self,
                                                            !.query = frame[t].query,
                                                            !.ret = a,
                                                            !.result = l]]
    /\ UNCHANGED objects

\* mutant: the instance counts its calls in an attribute
BuildList_counting(t) ==
    /\ frame[t].pc = "built"
    /\ LET a == NewAddr(heap)
           l == <<frame[t].tmp>>
           o == objects[frame[t].self]
       IN /\ heap' = [b \in DOMAIN heap \cup {a} |-> IF b = a THEN l ELSE heap[b]]
          /\ frame' = [frame EXCEPT ![t] = [IdleFrame EXCEPT !.pc = "returned",
                                                            !.self = frame[t].self,
                                                            !.query = frame[t].query,
                                                            !.ret = a,
                                                            !.result = l]]
          /\ objects' = [objects EXCEPT ![frame[t].self] =
                             [c \in {"calls"} |-> IF "calls" \in DOMAIN o
                                                  THEN 1 - o["calls"] ELSE 1]]

\* mutant: one list object is kept and handed out by every call
BuildList_shared(t) ==
    /\ frame[t].pc = "built"
    /\ LET a == 1
           l == <<frame[t].tmp>>
       IN /\ heap' = [b \in DOMAIN heap \cup {a} |-> IF b = a THEN l ELSE heap[b]]
          /\ frame' = [frame EXCEPT ![t] = [IdleFrame EXCEPT !.pc = "returned",
                                                            !.self = frame[t].self,
                                                            !.query = frame[t].query,
                                                            !.ret = a,
                                                            !.result = l]]
    /\ UNCHANGED objects

\* [ ... ] allocates a one-element list; return hands it to the caller and
\* pops the frame of retrieve
BuildList(t) ==
    /\ frame[t].pc = "built"
    /\ LET a == NewAddr(heap)
           l == <<frame[t].tmp>>
       IN /\ heap' = [b \in DOMAIN heap \cup {a} |-> IF b = a THEN l ELSE heap[b]]
          /\ frame' = [frame EXCEPT ![t] = [IdleFrame EXCEPT !.pc = "returned",
                                                            !.self = frame[t].self,
                                                            !.query = frame[t].query,
                                                            !.ret = a,
                                                            !.result = l]]
    /\ UNCHANGED objects

\* the list a caller was handed
Deref(t) == heap[frame[t].ret]

\* results.append(x) by the caller holding the list
ListAppend(t) ==
    /\ frame[t].pc = "returned"
    /\ Len(Deref(t)) < MaxListLen
    /\ heap' = [heap EXCEPT ![frame[t].ret] = Append(@, MutText)]
    /\ UNCHANGED <<objects, frame>>

\* results.clear()
ListClear(t) ==
    /\ frame[t].pc = "returned"
    /\ Deref(t) # <<>>
    /\ heap' = [heap EXCEPT ![frame[t].ret] = <<>>]
    /\ UNCHANGED <<objects, frame>>

\* results[i] = x, for an index of the list
ListSetItem(t, i) ==
    /\ frame[t].pc = "returned"
    /\ i \in 1 .. Len(Deref(t))
    /\ heap' = [heap EXCEPT ![frame[t].ret][i] = MutText]
    /\ UNCHANGED <<objects, frame>>

\* the caller drops its reference: the list is freed
Release(t) ==
    /\ frame[t].pc = "returned"
    /\ heap' = [b \in DOMAIN heap \ {frame[t].ret} |-> heap[b]]
    /\ frame' = [frame EXCEPT ![t] = IdleFrame]
    /\ UNCHANGED objects

Next ==
    \/ \E t \in Threads, r \in Instances, q \in Queries : Call(t, r, q)
    \/ \E t \in Threads : BuildString(t)
    \/ \E t \in Threads : BuildList(t)
    \/ \E t \in Threads : ListAppend(t)
    \/ \E t \in Threads : ListClear(t)
    \/ \E t \in Threads, i \in 1 .. MaxListLen : ListSetItem(t, i)
    \/ \E t \in Threads : Release(t)

Spec == Init /\ [][Next]_vars

(* ------------------------------ claims -------------------------------- *)

Returned(t) == frame[t].pc = "returned"
InCall(t) == frame[t].pc \in {"body", "built"}

ResultForTest ==
    <<"R", "e", "s", "u", "l", "t", " ", "f", "o", "r", " ", "t", "e", "s", "t">>
ResultForEmpty == <<"R", "e", "s", "u", "l", "t", " ", "f", "o", "r", " ">>

\* s occurs in w as a contiguous run (Python's  s in w)
IsSubstring(s, w) ==
    \E i \in 0 .. Len(w) - Len(s) : SubSeq(w, i + 1, i + Len(s)) = s

\* C1: every returned result is the one-element sequence whose element is
\* exactly "Result for " followed by the query of the call; retrieve("test")
\* is ["Result for test"] and retrieve("") is ["Result for "].
C1_ExactResult ==
    \A t \in Threads :
        Returned(t) =>
            /\ frame[t].result = <<Prefix \o frame[t].query>>
            /\ frame[t].query = Test => frame[t].result = <<ResultForTest>>
            /\ frame[t].query = <<>> => frame[t].result = <<ResultForEmpty>>

C1_Witness ==
    \E t, u \in Threads :
        /\ Returned(t) /\ frame[t].query = <<>> /\ frame[t].result = <<ResultForEmpty>>
        /\ Returned(u) /\ frame[u].query = Test /\ frame[u].result = <<ResultForTest>>

\* C2: every returned result has length exactly one, whatever the length or
\* the content of the query.
C2_LengthOne == \A t \in Threads : Returned(t) => Len(frame[t].result) = 1

C2_Witness ==
    \E t, u \in Threads :
        /\ Returned(t) /\ frame[t].query = <<>> /\ Len(frame[t].result) = 1
        /\ Returned(u) /\ Len(frame[u].query) = MaxQueryLen
        /\ Len(frame[u].result) = 1

\* C3: every returned result is non-empty and its first element contains
\* the query as a contiguous substring.
C3_ContainsQuery ==
    \A t \in Threads :
        Returned(t) =>
            /\ frame[t].result # <<>>
            /\ IsSubstring(frame[t].query, frame[t].result[1])

C3_Witness ==
    \E t, u \in Threads :
        /\ Returned(t) /\ frame[t].query = Test
        /\ IsSubstring(Test, frame[t].result[1])
        /\ Returned(u) /\ frame[u].query = <<"t", " ">>
        /\ IsSubstring(<<"t", " ">>, frame[u].result[1])

\* C4: two calls with the same query return equal results, whatever calls
\* came before them and whether they were made on the same instance or on
\* two instances.
C4_Deterministic ==
    \A t, u \in Threads :
        Returned(t) /\ Returned(u) /\ frame[t].query = frame[u].query
            => frame[t].result = frame[u].result

\* two calls of one query on one instance, the list of one of them mutated
\* by its caller since
C4_Witness ==
    \E t, u \in Threads :
        /\ t # u /\ Returned(t) /\ Returned(u)
        /\ frame[t].query = frame[u].query /\ frame[t].query # <<>>
        /\ frame[t].self = frame[u].self
        /\ frame[t].result = frame[u].result
        /\ Deref(t) # frame[t].result

\* C5: no call ends in an error: a frame never reaches the raised outcome,
\* and a call that has begun can always take its next step towards return.
C5_Total ==
    \A t \in Threads :
        /\ frame[t].pc # "raised"
        /\ frame[t].pc = "body" => ENABLED BuildString(t)
        /\ frame[t].pc = "built" => ENABLED BuildList(t)

C5_Witness ==
    \E t, u \in Threads :
        /\ Returned(t) /\ frame[t].query = <<>>
        /\ Returned(u) /\ frame[u].query = <<" ", " ">>

\* a step of thread t inside retrieve, from the binding of the arguments to
\* the return
RetrieveStep(t) ==
    \/ frame[t].pc = "idle" /\ frame'[t].pc = "body"
    \/ frame[t].pc = "body" /\ frame'[t].pc = "built"
    \/ frame[t].pc = "built" /\ frame'[t].pc = "returned"

\* C6: a step of retrieve leaves every Retriever instance, the query passed
\* in, the frames of the other threads and every list that already exists
\* unchanged; the one thing it adds is the list it returns.
C6_Pure ==
    [][\A t \in Threads :
          RetrieveStep(t) =>
              /\ objects' = objects
              /\ frame[t].pc # "idle" => /\ frame'[t].query = frame[t].query
                                         /\ frame'[t].self = frame[t].self
              /\ \A u \in Threads \ {t} : frame'[u] = frame[u]
              /\ \A a \in DOMAIN heap : a \in DOMAIN heap' /\ heap'[a] = heap[a]
              /\ DOMAIN heap' \ DOMAIN heap \subseteq {frame'[t].ret}]_vars

\* both calls were made on one instance, which still has no attribute, and
\* the list of the first, mutated before the second call returned, is as
\* its caller left it
C6_Witness ==
    \E t, u \in Threads :
        /\ t # u /\ Returned(t) /\ Returned(u)
        /\ frame[t].self = frame[u].self
        /\ objects[frame[t].self] = EmptyDict
        /\ Deref(t) = <<MutText>>
        /\ Deref(u) = frame[u].result

\* C7: with calls of several threads in progress on one instance, in every
\* interleaving of their steps the string a call has built and the list it
\* returns are those of its own query, and the step leaves the other
\* calls' frames alone.
C7_Concurrent ==
    /\ [](\A t \in Threads :
             frame[t].pc = "built" => frame[t].tmp = Prefix \o frame[t].query)
    /\ [][\A t \in Threads :
             (/\ frame[t].pc = "built" /\ frame'[t].pc = "returned"
              /\ \E u \in Threads \ {t} : InCall(u))
             => /\ frame'[t].result = <<Prefix \o frame[t].query>>
                /\ heap'[frame'[t].ret] = <<Prefix \o frame[t].query>>
                /\ \A u \in Threads \ {t} : frame'[u] = frame[u]]_vars

\* a call has returned its own result while a call of another query on the
\* same instance, begun before that return, is still in progress
C7_Witness ==
    \E t, u \in Threads :
        /\ t # u /\ Returned(t) /\ frame[u].pc = "built"
        /\ frame[t].self = frame[u].self
        /\ frame[t].query # frame[u].query
        /\ frame[t].result = <<Prefix \o frame[t].query>>
        /\ Deref(t) = frame[t].result
        /\ frame[u].tmp = Prefix \o frame[u].query

Held(t) == Returned(t) /\ frame[t].ret \in DOMAIN heap

\* C8: every call returns a list of its own: two lists held at once are two
\* objects, a step that changes one held list changes no other held list,
\* and a returning call leaves every list handed out earlier as it was and
\* returns the result of its query whatever was done to those lists.
C8_FreshList ==
    /\ [](\A t, u \in Threads :
             t # u /\ Returned(t) /\ Returned(u) => frame[t].ret # frame[u].ret)
    /\ [][\A t, u \in Threads :
             t # u /\ Held(t) /\ Held(t)'
             => /\ (Held(u) /\ Held(u)' /\ Deref(t)' # Deref(t))
                       => Deref(u)' = Deref(u)
                /\ (frame[u].pc = "built" /\ Held(u)')
                       => /\ Deref(t)' = Deref(t)
                          /\ Deref(u)' = <<Prefix \o frame[u].query>>]_vars

\* a list was cleared and appended to by its caller; a later call of the
\* same query returned the unmutated result in another object
C8_Witness ==
    \E t, u \in Threads :
        /\ t # u /\ Returned(t) /\ Returned(u)
        /\ frame[t].query = frame[u].query
        /\ frame[t].ret # frame[u].ret
        /\ Deref(t) = <<MutText, MutText>>
        /\ Deref(u) = <<Prefix \o frame[u].query>>

\* the query read back from a result element: the fixed prefix removed
StripPrefix(w) == SubSeq(w, Len(Prefix) + 1, Len(w))

\* C9: equal results come from equal queries, and the query of a call is
\* what is left of the sole result element once "Result for " is removed
\* from its front.
C9_Injective ==
    /\ \A t, u \in Threads :
           Returned(t) /\ Returned(u) /\ frame[t].result = frame[u].result
               => frame[t].query = frame[u].query
    /\ \A t \in Threads :
           Returned(t) =>
               /\ Len(frame[t].result) = 1
               /\ SubSeq(frame[t].result[1], 1, Len(Prefix)) = ResultForEmpty
               /\ StripPrefix(frame[t].result[1]) = frame[t].query

\* two queries that differ only in a blank at the front have two results
C9_Witness ==
    \E t, u \in Threads :
        /\ Returned(t) /\ Returned(u)
        /\ frame[t].query = <<"t">> /\ frame[u].query = <<" ", "t">>
        /\ frame[t].result # frame[u].result
        /\ StripPrefix(frame[u].result[1]) = <<" ", "t">>

====
